---- MODULE Spec2Model ----
(***************************************************************************)
(* PHAROSLoader (parsers/PHAROS/src/loadPHAROS.py): the three parse_*      *)
(* passes that turn database rows into flat rows tagged with a group key   *)
(* and a node number, and get_nodes_and_edges, which groups the flat rows  *)
(* and appends kgx nodes and edges to the loader's final lists.            *)
(*                                                                         *)
(* A Python str is a sequence of characters; a character is a one-letter   *)
(* string, except U+007F, U+0080 and U+00E9, written "U+007F", "U+0080"    *)
(* and "U+00E9".  None and the data frame's NaN are the one-element        *)
(* sequences None and NaN, which are no str.                               *)
(***************************************************************************)
EXTENDS Integers, Sequences, FiniteSets, Bags, TLC

None == << "None" >>
NaN == << "NaN" >>

(***************************************************************************)
(* Characters                                                              *)
(***************************************************************************)
UpperCase ==
    << "A", "B", "C", "D", "E", "F", "G", "H", "I", "J", "K", "L", "M",
       "N", "O", "P", "Q", "R", "S", "T", "U", "V", "W", "X", "Y", "Z" >>

LowerCase ==
    << "a", "b", "c", "d", "e", "f", "g", "h", "i", "j", "k", "l", "m",
       "n", "o", "p", "q", "r", "s", "t", "u", "v", "w", "x", "y", "z" >>

DigitChars == << "0", "1", "2", "3", "4", "5", "6", "7", "8", "9" >>

IndexOf(seq, c) == CHOOSE i \in 1..Len(seq) : seq[i] = c

IsIn(seq, c) == \E i \in 1..Len(seq) : seq[i] = c

\* ord(x): the code point of a character of the model's alphabet.
Ord(c) ==
    CASE IsIn(UpperCase, c) -> 64 + IndexOf(UpperCase, c)
      [] IsIn(LowerCase, c) -> 96 + IndexOf(LowerCase, c)
      [] IsIn(DigitChars, c) -> 47 + IndexOf(DigitChars, c)
      [] c = "\t" -> 9
      [] c = "\n" -> 10
      [] c = " " -> 32
      [] c = "," -> 44
      [] c = "-" -> 45
      [] c = "." -> 46
      [] c = ":" -> 58
      [] c = "?" -> 63
      [] c = "_" -> 95
      [] c = "U+007F" -> 127
      [] c = "U+0080" -> 128
      [] c = "U+00E9" -> 233

\* str.lower() on one character (the model's cased characters are A-Z, a-z).
LowerChar(c) ==
    IF IsIn(UpperCase, c) THEN LowerCase[IndexOf(UpperCase, c)] ELSE c

Digits == {"0", "1", "2", "3", "4", "5", "6", "7", "8", "9"}

\* The characters str.split() without a separator treats as whitespace.
Whitespace == {" ", "\t", "\n"}

(***************************************************************************)
(* str methods                                                             *)
(***************************************************************************)
\* s.startswith(p)
StartsWith(s, p) ==
    /\ Len(s) >= Len(p)
    /\ SubSeq(s, 1, Len(p)) = p

\* s.split(c) for a one-character separator: the pieces between the
\* separators, the empty ones kept.
RECURSIVE SplitOn(_, _)
SplitOn(s, c) ==
    IF \A i \in 1..Len(s) : s[i] # c
    THEN << s >>
    ELSE LET k == CHOOSE i \in 1..Len(s) :
                      /\ s[i] = c
                      /\ \A j \in 1..(i - 1) : s[j] # c
         IN  << SubSeq(s, 1, k - 1) >> \o SplitOn(SubSeq(s, k + 1, Len(s)), c)

\* s.split(): the maximal runs of non-whitespace characters.
RECURSIVE SplitWhitespace(_)
SplitWhitespace(s) ==
    IF \A i \in 1..Len(s) : s[i] \in Whitespace
    THEN << >>
    ELSE LET b == CHOOSE i \in 1..Len(s) :
                      /\ s[i] \notin Whitespace
                      /\ \A j \in 1..(i - 1) : s[j] \in Whitespace
             e == CHOOSE i \in b..Len(s) :
                      /\ \A j \in b..i : s[j] \notin Whitespace
                      /\ (i = Len(s) \/ s[i + 1] \in Whitespace)
         IN  << SubSeq(s, b, e) >> \o SplitWhitespace(SubSeq(s, e + 1, Len(s)))

\* sep.join(parts)
RECURSIVE Join(_, _)
Join(sep, parts) ==
    IF parts = << >> THEN << >>
    ELSE IF Len(parts) = 1 THEN parts[1]
    ELSE parts[1] \o sep \o Join(sep, Tail(parts))

\* s.lower()
Lower(s) == [i \in 1..Len(s) |-> LowerChar(s[i])]

\* s.replace(old, ''): every non-overlapping occurrence of old, left to
\* right, removed.
RECURSIVE RemoveAll(_, _)
RemoveAll(s, old) ==
    IF s = << >> THEN << >>
    ELSE IF StartsWith(s, old)
         THEN RemoveAll(SubSeq(s, Len(old) + 1, Len(s)), old)
         ELSE << s[1] >> \o RemoveAll(Tail(s), old)

(***************************************************************************)
(* The literals of loadPHAROS.py                                           *)
(***************************************************************************)
S_UMLS == << "U", "M", "L", "S", ":" >>
S_Orphanet == << "O", "r", "p", "h", "a", "n", "e", "t", ":" >>
S_ORPHANET == << "O", "R", "P", "H", "A", "N", "E", "T", ":" >>
S_WD_P2293 == << "W", "D", ":", "P", "2", "2", "9", "3" >>
S_CHEMBL == << "C", "H", "E", "M", "B", "L" >>
S_GAMMA == << "G", "A", "M", "M", "A", ":" >>
S_interacts_with ==
    << "i", "n", "t", "e", "r", "a", "c", "t", "s", "_", "w", "i", "t", "h" >>
S_PMID == << "P", "M", "I", "D", ":" >>
S_predicate ==
    << "b", "i", "o", "l", "i", "n", "k", ":", "g", "e", "n", "e", "_",
       "a", "s", "s", "o", "c", "i", "a", "t", "e", "d", "_", "w", "i", "t", "h", "_",
       "c", "o", "n", "d", "i", "t", "i", "o", "n" >>
S_edge_label ==
    << "g", "e", "n", "e", "_", "a", "s", "s", "o", "c", "i", "a", "t", "e", "d", "_",
       "w", "i", "t", "h", "_", "c", "o", "n", "d", "i", "t", "i", "o", "n" >>
\* self.provenance_id
provenance_id ==
    << "i", "n", "f", "o", "r", "e", "s", ":", "p", "h", "a", "r", "o", "s" >>
Empty == << >>

TagChEMBL == << "C", "h", "E", "M", "B", "L" >>
TagGtoP ==
    << "G", "u", "i", "d", "e", " ", "t", "o", " ",
       "P", "h", "a", "r", "m", "a", "c", "o", "l", "o", "g", "y" >>

\* prefixmap of parse_gene_to_drug_activity and parse_gene_to_cmpd_activity
prefixmap ==
    (TagChEMBL :> << "C", "H", "E", "M", "B", "L", ".", "C", "O", "M", "P", "O", "U", "N", "D",
                     ":", "C", "H", "E", "M", "B", "L" >>)
    @@ (TagGtoP :> << "G", "T", "O", "P", "D", "B", ":" >>)

(***************************************************************************)
(* Identifier normalization (parse_gene_to_disease)                        *)
(***************************************************************************)
\* re.compile('^C\d+$').match(did): a "C", one or more digits, and then the
\* end of the string or one newline that ends it ($ matches before a final
\* newline).
PatternMatch(did) ==
    LET body == IF Len(did) > 0 /\ did[Len(did)] = "\n"
                THEN SubSeq(did, 1, Len(did) - 1)
                ELSE did
    IN  /\ Len(body) >= 2
        /\ body[1] = "C"
        /\ \A i \in 2..Len(body) : body[i] \in Digits

\* The elif chain on a did that is not None: the did the rows carry.
NormalizeDid(did) ==
    IF PatternMatch(did) THEN S_UMLS \o did
    ELSE IF StartsWith(did, S_Orphanet) THEN S_ORPHANET \o SplitOn(did, ":")[2]
    ELSE did

\* hashlib.md5(...).hexdigest(): a digest, one per input (collisions of md5
\* are not modelled).
Md5(s) == << "md5", s >>

\* The group id of a row pair: the three fields and the text of
\* random.random(), concatenated and hashed.
GroupId(a, b, c, rnd) == Md5(a \o b \o c \o rnd)

(***************************************************************************)
(* get_edge_props and snakify                                              *)
(***************************************************************************)
snakify(text) ==
    LET decomma == Join(<< "_" >>, SplitOn(text, ","))
        dedash == Join(<< "_" >>, SplitOn(decomma, "-"))
    IN  Join(<< "_" >>, SplitWhitespace(dedash))

\* The relation get_edge_props returns.
EdgeRelation(result) ==
    LET rel == IF result.pred # None /\ Len(result.pred) > 1
               THEN Lower(snakify(result.pred))
               ELSE S_interacts_with
    IN  S_GAMMA \o rel

EdgeProvenance(result) ==
    IF result.dtype # None /\ Len(result.dtype) > 0 THEN result.dtype ELSE None

EdgePmids(result) ==
    IF "pubmed_ids" \in DOMAIN result /\ result.pubmed_ids # None
    THEN LET parts == SplitOn(result.pubmed_ids, "|")
         IN  [i \in 1..Len(parts) |-> S_PMID \o parts[i]]
    ELSE << >>

\* float(x) of a decimal the database returned: the same number, carried as
\* its text; float(0) is "0.0".
EdgeProps(result) ==
    IF result.affinity # None
    THEN [affinity |-> result.affinity, affinity_parameter |-> result.affinity_parameter]
    ELSE [affinity |-> << "0", ".", "0" >>, affinity_parameter |-> Empty]

get_edge_props(result) ==
    [relation |-> EdgeRelation(result),
     pmids |-> EdgePmids(result),
     props |-> EdgeProps(result),
     provenance |-> EdgeProvenance(result)]

(***************************************************************************)
(* Name sanitization and the kgx objects (get_nodes_and_edges)             *)
(***************************************************************************)
\* Sanitize with the test ord(x) <= 128.
SanitizeOffByOne(name) == [i \in 1..Len(name) |-> IF Ord(name[i]) <= 128 THEN name[i] ELSE "?"]

\* ''.join([x if ord(x) < 128 else '?' for x in name])
Sanitize(name) == [i \in 1..Len(name) |-> IF Ord(name[i]) < 128 THEN name[i] ELSE "?"]

kgxnode(identifier, name) == [id |-> identifier, name |-> name]

kgxedge(subject_id, relation, predicate, object_id, edgeprops, primary_knowledge_source) ==
    [subject_id |-> subject_id,
     relation |-> relation,
     predicate |-> predicate,
     object_id |-> object_id,
     edgeprops |-> edgeprops,
     primary_knowledge_source |-> primary_knowledge_source,
     aggregator_knowledge_sources |-> << provenance_id >>]

(***************************************************************************)
(* The loader's state                                                      *)
(***************************************************************************)
VARIABLES
    entry,                   \* the method the caller invoked on the loader
    pc,                      \* the method the loader is in, or "done", "raised"
    exc,                     \* the exception that left the method, "" if none
    item,                    \* the database row of the running loop
    record_counter,          \* locals of the running parse_* method
    skipped_record_counter,
    final_record_count,      \* locals of parse_data
    final_skipped_count,
    node_list,               \* the flat rows; the data frame's rows
    df_grp,                  \* the group keys the group loop has yet to visit
    row_index,               \* the group key the group loop is at
    final_node_list,         \* self.final_node_list
    final_edge_list,         \* self.final_edge_list
    log,                     \* what self.logger was given
    load_metadata,           \* what parse_data returned
    finished                 \* the final lists of the loaders that ran before

vars ==
    << entry, pc, exc, item, record_counter, skipped_record_counter,
       final_record_count, final_skipped_count, node_list, df_grp, row_index,
       final_node_list, final_edge_list, log, load_metadata, finished >>

(***************************************************************************)
(* Bounds and the rows the database may return                             *)
(***************************************************************************)
\* Rows the three queries return in one run, together.
MaxRecords == 2
\* The text of random.random(): two of its values.
RandomTexts == { << "0", ".", "1" >>, << "0", ".", "7" >> }

G1 == << "H", "G", "N", "C", ":", "5" >>
G2 == << "H", "G", "N", "C", ":", "7", "7", "7" >>
BRCA1 == << "B", "R", "C", "A", "1" >>
BreastCancer == << "B", "r", "e", "a", "s", "t", " ", "C", "a", "n", "c", "e", "r" >>
CTD == << "C", "T", "D" >>
C009 == << "C", "0", "0", "9" >>
C1234 == << "C", "1", "2", "3", "4" >>
Orphanet1234 == << "O", "r", "p", "h", "a", "n", "e", "t", ":", "1", "2", "3", "4" >>
Orphanet12c3 == << "O", "r", "p", "h", "a", "n", "e", "t", ":", "1", "2", ":", "3" >>
PartOfRegulates ==
    << "P", "a", "r", "t", " ", "O", "f", ",", " ",
       "R", "e", "g", "u", "l", "a", "t", "e", "s" >>
INHIBITOR == << "I", "N", "H", "I", "B", "I", "T", "O", "R" >>
aspirin == << "a", "s", "p", "i", "r", "i", "n" >>
CHEMBL25 == << "C", "H", "E", "M", "B", "L", "2", "5" >>
PubChem == << "P", "u", "b", "C", "h", "e", "m" >>

\* Names and gene symbols: ASCII, U+007F and U+0080 at the two sides of
\* the limit of 128, and U+00E9.
Names ==
    {Empty, << "a" >>, << "U+007F" >>, << "U+0080" >>, << "a", "U+00E9", "b" >>}

Dids == {None, C009, C1234, Orphanet1234, Orphanet12c3, G1, G2, << "D", "U+00E9" >>}

Preds == {None, << "x" >>, << "a", "-", "b" >>, INHIBITOR, PartOfRegulates}

DiseaseBase == [value |-> G2, did |-> C009, name |-> BreastCancer, sym |-> BRCA1, dtype |-> CTD]

\* Rows of GENE_TO_DISEASE.
DiseaseItems ==
    {[DiseaseBase EXCEPT !.did = d] : d \in Dids}
    \cup {[DiseaseBase EXCEPT !.name = n] : n \in Names \cup {None}}
    \cup {[DiseaseBase EXCEPT !.sym = None],
          [DiseaseBase EXCEPT !.sym = << "a", "U+00E9", "b" >>],
          [DiseaseBase EXCEPT !.value = G1, !.did = G1],
          [DiseaseBase EXCEPT !.value = S_UMLS \o C009]}

DrugBase ==
    [value |-> G2, drug |-> aspirin, cid |-> CHEMBL25, id_src |-> TagChEMBL, sym |-> BRCA1,
     affinity |-> None, affinity_parameter |-> None, pred |-> INHIBITOR, dtype |-> Empty]

\* Rows of GENE_TO_DRUG_ACTIVITY: id_src is the query's literal 'ChEMBL',
\* dtype its literal '', and cid is not NULL.
DrugItems ==
    {[DrugBase EXCEPT !.pred = p] : p \in Preds}
    \cup {[DrugBase EXCEPT !.affinity = << "7", ".", "5" >>, !.affinity_parameter = << "K", "i" >>],
          [DrugBase EXCEPT !.sym = None]}

CmpdBase ==
    [value |-> G2, drug |-> aspirin, cid |-> CHEMBL25, id_src |-> TagChEMBL,
     affinity |-> None, affinity_parameter |-> << "K", "i" >>, pred |-> << "K", "i" >>,
     sym |-> BRCA1, pubmed_ids |-> None, dtype |-> Empty]

\* Rows of GENE_TO_CMPD_ACTIVITY: id_src is the catype column.
CmpdItems ==
    {[CmpdBase EXCEPT !.id_src = t] : t \in {TagChEMBL, TagGtoP, PubChem}}
    \cup {[CmpdBase EXCEPT !.id_src = TagGtoP, !.cid = << "4", "1" >>],
          [CmpdBase EXCEPT !.pubmed_ids = << "1", "1", "|", "2", "2" >>]}

(***************************************************************************)
(* The flat rows the parse_* methods append                                *)
(***************************************************************************)
\* A node_num 1 row: the dict has no edge keys, which the data frame's
\* columns fill with NaN.
SubjectRow(grp, id, name) ==
    [grp |-> grp, node_num |-> 1, id |-> id, name |-> name,
     category |-> Empty, equivalent_identifiers |-> Empty,
     predicate |-> NaN, relation |-> NaN, edge_label |-> NaN, pmids |-> NaN,
     affinity |-> NaN, affinity_parameter |-> NaN, provenance |-> NaN]

ObjectRow(grp, id, name, predicate, relation, edge_label, pmids, affinity, affinity_parameter, provenance) ==
    [grp |-> grp, node_num |-> 2, id |-> id, name |-> name,
     category |-> Empty, equivalent_identifiers |-> Empty,
     predicate |-> predicate, relation |-> relation, edge_label |-> edge_label,
     pmids |-> pmids, affinity |-> affinity,
     affinity_parameter |-> affinity_parameter, provenance |-> provenance]

\* The two rows of one gene to disease record.
DiseaseRows(it, did, rnd) ==
    LET grp == GroupId(it.value, S_WD_P2293, did, rnd)
    IN  << SubjectRow(grp, it.value, it.sym),
           ObjectRow(grp, did, it.name, S_predicate, S_WD_P2293, S_edge_label,
                     << >>, << "0" >>, Empty, it.dtype) >>

\* The drug or compound id: the prefix of the source tag and the cid without
\* its 'CHEMBL's.
CompoundId(it) == prefixmap[it.id_src] \o RemoveAll(it.cid, S_CHEMBL)

\* The two rows of one gene to drug activity record: the drug is node 1.
DrugRows(it, rnd) ==
    LET drug_id == CompoundId(it)
        e == get_edge_props(it)
        grp == GroupId(drug_id, e.relation, it.value, rnd)
    IN  << SubjectRow(grp, drug_id, it.drug),
           ObjectRow(grp, it.value, it.sym, Empty, e.relation, Empty, e.pmids,
                     e.props.affinity, e.props.affinity_parameter, e.provenance) >>

\* The two rows of one gene to compound activity record: the gene is node 1.
CmpdRows(it, rnd) ==
    LET cmpd_id == CompoundId(it)
        e == get_edge_props(it)
        grp == GroupId(cmpd_id, e.relation, it.value, rnd)
    IN  << SubjectRow(grp, it.value, it.sym),
           ObjectRow(grp, cmpd_id, it.drug, Empty, e.relation, Empty, e.pmids,
                     e.props.affinity, e.props.affinity_parameter, e.provenance) >>

(***************************************************************************)
(* get_nodes_and_edges: one group                                          *)
(***************************************************************************)
\* df.set_index('grp').groupby('grp'): the keys, and the rows of one key in
\* the frame's order.
GroupKeys(df) == {df[i].grp : i \in 1..Len(df)}

IsInGroup(r, g) == r.grp = g

GroupRows(df, g) == SelectSeq(df, LAMBDA r : IsInGroup(r, g))

\* IsPair with the test len(rows) >= 2.
IsPairOrMore(rows) == Len(rows) >= 2

\* The group size the loop accepts.
IsPair(rows) == Len(rows) = 2

\* The first loop: the first node_num 1 row that has a name, 0 if none.
RootIndex(rows) ==
    LET found == {i \in 1..Len(rows) : rows[i].node_num = 1 /\ rows[i].name # None}
    IN  IF found = {} THEN 0 ELSE CHOOSE i \in found : \A j \in found : i <= j

SubjectNode(row) == kgxnode(row.id, Sanitize(row.name))

\* ObjectNode with the name passed for the id too.
ObjectNodeIdFromName(row) == kgxnode(Sanitize(row.name), Sanitize(row.name))

ObjectNode(row) == kgxnode(row.id, Sanitize(row.name))

\* ObjectEdge with the two ends exchanged.
ObjectEdgeSwapped(node_1_id, row) ==
    kgxedge(row.id, row.relation, row.predicate, node_1_id,
            [publications |-> row.pmids, affinity |-> row.affinity,
             affinity_parameter |-> row.affinity_parameter],
            row.provenance)

ObjectEdge(node_1_id, row) ==
    kgxedge(node_1_id, row.relation, row.predicate, row.id,
            [publications |-> row.pmids, affinity |-> row.affinity,
             affinity_parameter |-> row.affinity_parameter],
            row.provenance)

\* The second loop from row i on: a node and an edge for each row that is
\* not node_num 1; the name of None stops it with a TypeError.
RECURSIVE EmitObjects(_, _, _, _)
EmitObjects(rows, i, node_1_id, acc) ==
    IF i > Len(rows) THEN acc
    ELSE IF rows[i].node_num = 1 THEN EmitObjects(rows, i + 1, node_1_id, acc)
    ELSE IF rows[i].name = None THEN [acc EXCEPT !.exc = "TypeError"]
    ELSE EmitObjects(rows, i + 1, node_1_id,
                     [acc EXCEPT !.nodes = Append(@, ObjectNode(rows[i])),
                                 !.edges = Append(@, ObjectEdge(node_1_id, rows[i]))])

\* ProcessGroup with node_1_id set to '' once, before the group loop: a group
\* without a named node_num 1 row is left with the id the last Edge started
\* from.
ProcessGroupRootKept(rows, nodes, edges, lg) ==
    LET acc == [nodes |-> nodes, edges |-> edges, exc |-> "", log |-> lg]
    IN  IF IsPair(rows)
        THEN LET k == RootIndex(rows)
                 node_1_id == IF k # 0 THEN rows[k].id
                              ELSE IF edges = << >> THEN Empty
                              ELSE edges[Len(edges)].subject_id
                 acc1 == IF k = 0 THEN acc
                         ELSE [acc EXCEPT !.nodes = Append(@, SubjectNode(rows[k]))]
             IN  IF node_1_id # Empty
                 THEN EmitObjects(rows, 1, node_1_id, acc1)
                 ELSE acc1
        ELSE [acc EXCEPT !.log = Append(@, << "debug", "node group mismatch", Len(rows) >>)]

\* The body of the group loop on the rows of one group.
ProcessGroup(rows, nodes, edges, lg) ==
    LET acc == [nodes |-> nodes, edges |-> edges, exc |-> "", log |-> lg]
    IN  IF IsPair(rows)
        THEN LET k == RootIndex(rows)
                 node_1_id == IF k = 0 THEN Empty ELSE rows[k].id
                 acc1 == IF k = 0 THEN acc
                         ELSE [acc EXCEPT !.nodes = Append(@, SubjectNode(rows[k]))]
             IN  IF node_1_id # Empty
                 THEN EmitObjects(rows, 1, node_1_id, acc1)
                 ELSE acc1
        ELSE [acc EXCEPT !.log = Append(@, << "debug", "node group mismatch", Len(rows) >>)]

(***************************************************************************)
(* parse_data and the parse_* methods                                      *)
(***************************************************************************)
\* NewFinalList as one list of the class, which every loader shares.
SharedFinalList(previous) == previous

\* PHAROSLoader.__init__: the final list of a new loader.
NewFinalList(previous) == << >>

Init ==
    /\ entry = "parse_data"
    /\ pc = "parse_gene_to_disease"
    /\ exc = ""
    /\ item = None
    /\ record_counter = 0
    /\ skipped_record_counter = 0
    /\ final_record_count = 0
    /\ final_skipped_count = 0
    /\ node_list = << >>
    /\ df_grp = {}
    /\ row_index = None
    /\ final_node_list = NewFinalList(<< >>)
    /\ final_edge_list = NewFinalList(<< >>)
    /\ log = << >>
    /\ load_metadata = None
    /\ finished = << >>

\* The queries of one run return MaxRecords rows at most.
MoreRows == final_record_count + record_counter < MaxRecords

\* ParseGeneToDiseaseItem without the test did == gene: the two rows are
\* appended for every record that has a disease id.
ParseGeneToDiseaseItemNoSelfTest ==
    /\ pc = "parse_gene_to_disease"
    /\ MoreRows
    /\ \E it \in DiseaseItems, rnd \in RandomTexts :
          /\ item' = it
          /\ record_counter' = record_counter + 1
          /\ IF it.did = None
             THEN /\ skipped_record_counter' = skipped_record_counter + 1
                  /\ UNCHANGED << node_list, log >>
             ELSE /\ UNCHANGED << skipped_record_counter, log >>
                  /\ node_list' = node_list \o DiseaseRows(it, NormalizeDid(it.did), rnd)
    /\ UNCHANGED << entry, pc, exc, final_record_count, final_skipped_count, df_grp,
                    row_index, final_node_list, final_edge_list, load_metadata, finished >>

\* One pass of the loop of parse_gene_to_disease.
ParseGeneToDiseaseItem ==
    /\ pc = "parse_gene_to_disease"
    /\ MoreRows
    /\ \E it \in DiseaseItems, rnd \in RandomTexts :
          /\ item' = it
          /\ record_counter' = record_counter + 1
          /\ IF it.did = None
             THEN /\ skipped_record_counter' = skipped_record_counter + 1
                  /\ UNCHANGED << node_list, log >>
             ELSE LET did == NormalizeDid(it.did)
                  IN  /\ UNCHANGED skipped_record_counter
                      /\ IF did = it.value
                         THEN /\ log' = Append(log, << "error", "similar parse_gene_to_disease", 0 >>)
                              /\ UNCHANGED node_list
                         ELSE /\ node_list' = node_list \o DiseaseRows(it, did, rnd)
                              /\ UNCHANGED log
    /\ UNCHANGED << entry, pc, exc, final_record_count, final_skipped_count, df_grp,
                    row_index, final_node_list, final_edge_list, load_metadata, finished >>

\* A parse_* method returns; parse_data adds its counters and calls the next.
ReturnTo(next) ==
    /\ final_record_count' = final_record_count + record_counter
    /\ final_skipped_count' = final_skipped_count + skipped_record_counter
    /\ record_counter' = 0
    /\ skipped_record_counter' = 0
    /\ item' = None
    /\ pc' = next

ParseGeneToDiseaseReturn ==
    /\ pc = "parse_gene_to_disease"
    /\ ReturnTo("parse_gene_to_drug_activity")
    /\ UNCHANGED << entry, exc, node_list, df_grp, row_index, final_node_list,
                    final_edge_list, log, load_metadata, finished >>

\* ActivityItem with a source tag that prefixmap lacks caught and the row
\* skipped.
ActivityItemSkipUnknown(it, newrows) ==
    /\ item' = it
    /\ record_counter' = record_counter + 1
    /\ IF it.id_src \in DOMAIN prefixmap
       THEN node_list' = node_list \o newrows
       ELSE UNCHANGED node_list
    /\ UNCHANGED << entry, pc, exc, skipped_record_counter, final_record_count,
                    final_skipped_count, df_grp, row_index, final_node_list,
                    final_edge_list, log, load_metadata, finished >>

\* One pass of the loop of parse_gene_to_drug_activity or of
\* parse_gene_to_cmpd_activity on the row it: a source tag that prefixmap
\* lacks raises KeyError, which nothing catches.
ActivityItem(it, newrows) ==
    /\ item' = it
    /\ record_counter' = record_counter + 1
    /\ IF it.id_src \in DOMAIN prefixmap
       THEN /\ node_list' = node_list \o newrows
            /\ UNCHANGED << pc, exc >>
       ELSE /\ pc' = "raised"
            /\ exc' = "KeyError"
            /\ UNCHANGED node_list
    /\ UNCHANGED << entry, skipped_record_counter, final_record_count, final_skipped_count,
                    df_grp, row_index, final_node_list, final_edge_list, log,
                    load_metadata, finished >>

ParseGeneToDrugActivityItem ==
    /\ pc = "parse_gene_to_drug_activity"
    /\ MoreRows
    /\ \E it \in DrugItems, rnd \in RandomTexts : ActivityItem(it, DrugRows(it, rnd))

ParseGeneToDrugActivityReturn ==
    /\ pc = "parse_gene_to_drug_activity"
    /\ ReturnTo("parse_gene_to_cmpd_activity")
    /\ UNCHANGED << entry, exc, node_list, df_grp, row_index, final_node_list,
                    final_edge_list, log, load_metadata, finished >>

ParseGeneToCmpdActivityItem ==
    /\ pc = "parse_gene_to_cmpd_activity"
    /\ MoreRows
    /\ \E it \in CmpdItems, rnd \in RandomTexts : ActivityItem(it, CmpdRows(it, rnd))

\* Metadata with the skipped records left out of num_source_lines.
MetadataUsableOnly(records, skipped) ==
    [num_source_lines |-> records - skipped, unusable_source_lines |-> skipped]

\* What parse_data returns.
Metadata(records, skipped) ==
    [num_source_lines |-> records, unusable_source_lines |-> skipped]

\* parse_gene_to_cmpd_activity returns; parse_data builds the data frame and
\* calls get_nodes_and_edges when there are rows, and returns if not.
ParseGeneToCmpdActivityReturn ==
    /\ pc = "parse_gene_to_cmpd_activity"
    /\ IF Len(node_list) > 0
       THEN /\ ReturnTo("get_nodes_and_edges")
            /\ df_grp' = GroupKeys(node_list)
            /\ log' = Append(log, << "debug", "Creating nodes and edges.", 0 >>)
            /\ UNCHANGED load_metadata
       ELSE /\ ReturnTo("done")
            /\ log' = Append(log, << "warning", "No records found.", 0 >>)
            /\ load_metadata' = Metadata(final_record_count + record_counter,
                                         final_skipped_count + skipped_record_counter)
            /\ UNCHANGED df_grp
    /\ UNCHANGED << entry, exc, node_list, row_index, final_node_list,
                    final_edge_list, finished >>

(***************************************************************************)
(* get_nodes_and_edges                                                     *)
(***************************************************************************)
\* One pass of the group loop.  groupby yields the groups in the order of
\* their keys, which are md5 digests; the order of the digests is not
\* modelled, so the loop may take the groups in any order.
GroupStep ==
    /\ pc = "get_nodes_and_edges"
    /\ \E g \in df_grp :
          LET out == ProcessGroup(GroupRows(node_list, g), final_node_list,
                                  final_edge_list, log)
          IN  /\ row_index' = g
              /\ df_grp' = df_grp \ {g}
              /\ final_node_list' = out.nodes
              /\ final_edge_list' = out.edges
              /\ log' = out.log
              /\ exc' = out.exc
              /\ pc' = IF out.exc = "" THEN pc ELSE "raised"
    /\ UNCHANGED << entry, item, record_counter, skipped_record_counter,
                    final_record_count, final_skipped_count, node_list,
                    load_metadata, finished >>

\* The group loop ends and get_nodes_and_edges returns to parse_data, which
\* returns the metadata.
ReturnMetadata ==
    /\ pc = "get_nodes_and_edges"
    /\ entry = "parse_data"
    /\ df_grp = {}
    /\ pc' = "done"
    /\ log' = Append(log, << "debug", "nodes found, edges found.", 0 >>)
    /\ load_metadata' = Metadata(final_record_count, final_skipped_count)
    /\ UNCHANGED << entry, exc, item, record_counter, skipped_record_counter,
                    final_record_count, final_skipped_count, node_list, df_grp,
                    row_index, final_node_list, final_edge_list, finished >>

Next ==
    \/ ParseGeneToDiseaseItem
    \/ ParseGeneToDiseaseReturn
    \/ ParseGeneToDrugActivityItem
    \/ ParseGeneToDrugActivityReturn
    \/ ParseGeneToCmpdActivityItem
    \/ ParseGeneToCmpdActivityReturn
    \/ GroupStep
    \/ ReturnMetadata

Spec == Init /\ [][Next]_vars

(***************************************************************************)
(* get_nodes_and_edges called on a data frame of the caller's              *)
(***************************************************************************)
\* Rows of the frame, and loaders run on it one after the other.
MaxRows == 3
MaxLoaders == 2

FrameKeys == {Md5(<< "1" >>), Md5(<< "2" >>)}

IdA == << "A" >>
IdB == << "B" >>
IdC == << "C" >>
NameA == << "a", "U+00E9" >>
NameB == << "b" >>

FrameObjectRow(g, n, id, name) ==
    [ObjectRow(g, id, name, Empty, S_GAMMA \o S_interacts_with, Empty, << >>,
               << "0", ".", "0" >>, Empty, CTD) EXCEPT !.node_num = n]

\* The rows a frame is made of: node_num 1 rows with and without a name and
\* with the empty id, and node_num 2 and 3 rows with and without a name.
FrameRows ==
    UNION {{SubjectRow(g, IdA, NameA), SubjectRow(g, IdA, None),
            SubjectRow(g, Empty, NameA), SubjectRow(g, IdB, NameB),
            FrameObjectRow(g, 2, IdB, NameB), FrameObjectRow(g, 2, IdB, None),
            FrameObjectRow(g, 3, IdC, NameA)} : g \in FrameKeys}

Frames == UNION {[1..n -> FrameRows] : n \in 1..MaxRows}

InitFrame ==
    /\ entry = "get_nodes_and_edges"
    /\ pc = "get_nodes_and_edges"
    /\ exc = ""
    /\ item = None
    /\ record_counter = 0
    /\ skipped_record_counter = 0
    /\ final_record_count = 0
    /\ final_skipped_count = 0
    /\ node_list \in Frames
    /\ df_grp = GroupKeys(node_list)
    /\ row_index = None
    /\ final_node_list = NewFinalList(<< >>)
    /\ final_edge_list = NewFinalList(<< >>)
    /\ log = << >>
    /\ load_metadata = None
    /\ finished = << >>

\* The group loop ends and get_nodes_and_edges returns to its caller.
ReturnToCaller ==
    /\ pc = "get_nodes_and_edges"
    /\ entry = "get_nodes_and_edges"
    /\ df_grp = {}
    /\ pc' = "done"
    /\ UNCHANGED << entry, exc, item, record_counter, skipped_record_counter,
                    final_record_count, final_skipped_count, node_list, df_grp,
                    row_index, final_node_list, final_edge_list, log,
                    load_metadata, finished >>

\* The caller constructs another PHAROSLoader and calls its
\* get_nodes_and_edges on the same frame; it keeps the lists of the loader
\* that ran before.
NewLoader ==
    /\ pc \in {"done", "raised"}
    /\ Len(finished) + 1 < MaxLoaders
    /\ finished' = Append(finished, [nodes |-> final_node_list,
                                     edges |-> final_edge_list, exc |-> exc])
    /\ final_node_list' = NewFinalList(final_node_list)
    /\ final_edge_list' = NewFinalList(final_edge_list)
    /\ pc' = "get_nodes_and_edges"
    /\ exc' = ""
    /\ df_grp' = GroupKeys(node_list)
    /\ row_index' = None
    /\ UNCHANGED << entry, item, record_counter, skipped_record_counter,
                    final_record_count, final_skipped_count, node_list, log,
                    load_metadata >>

NextFrame ==
    \/ GroupStep
    \/ ReturnToCaller
    \/ NewLoader

SpecFrame == InitFrame /\ [][NextFrame]_vars

(***************************************************************************)
(* Properties of the group loop                                            *)
(***************************************************************************)
\* The step is a pass of the group loop, on the group row_index'.
GroupStepped ==
    /\ pc = "get_nodes_and_edges"
    /\ row_index' \in df_grp
    /\ df_grp' = df_grp \ {row_index'}

\* The rows of the group the step is on, and the rows of the group the
\* loop is at.
SteppedRows == GroupRows(node_list, row_index')

CurrentRows == GroupRows(node_list, row_index)

\* What the step appended to the final lists.
NewNodes == SubSeq(final_node_list', Len(final_node_list) + 1, Len(final_node_list'))

NewEdges == SubSeq(final_edge_list', Len(final_edge_list) + 1, Len(final_edge_list'))

AppendOnly ==
    /\ Len(final_node_list') >= Len(final_node_list)
    /\ Len(final_edge_list') >= Len(final_edge_list)
    /\ SubSeq(final_node_list', 1, Len(final_node_list)) = final_node_list
    /\ SubSeq(final_edge_list', 1, Len(final_edge_list)) = final_edge_list

Subjects(rows) == {i \in 1..Len(rows) : rows[i].node_num = 1}

Objects(rows) == {i \in 1..Len(rows) : rows[i].node_num >= 2}

\* Exactly one node_num 1 row and one row of node_num 2 or more.
OneSubjectOneObject(rows) ==
    /\ Len(rows) = 2
    /\ Cardinality(Subjects(rows)) = 1
    /\ Cardinality(Objects(rows)) = 1

SubjectOf(rows) == rows[CHOOSE i \in Subjects(rows) : TRUE]

ObjectOf(rows) == rows[CHOOSE i \in Objects(rows) : TRUE]

\* Both rows carry a name and the node_num 1 row an id that is not ''.
NamedPair(rows) ==
    /\ OneSubjectOneObject(rows)
    /\ SubjectOf(rows).name # None
    /\ SubjectOf(rows).id # Empty
    /\ ObjectOf(rows).name # None

\* The step appended the subject's Node, the object's Node and one Edge from
\* the first to the second.
EmitsPair(rows) ==
    /\ AppendOnly
    /\ Len(NewNodes) = 2
    /\ Len(NewEdges) = 1
    /\ NewNodes[1].id = SubjectOf(rows).id
    /\ NewNodes[2].id = ObjectOf(rows).id
    /\ NewEdges[1].subject_id = NewNodes[1].id
    /\ NewEdges[1].object_id = NewNodes[2].id

\* C1 as claimed: every group of one node_num 1 row and one row of node_num
\* 2 or more makes the loop append exactly 2 Nodes and 1 Edge, the Edge from
\* the id of the first row's Node to the id of the second row's Node.
C1_AnyPairEmits ==
    [][GroupStepped /\ OneSubjectOneObject(SteppedRows) => EmitsPair(SteppedRows)]_vars

\* C1 amended: the same of every such group whose two rows carry a name and
\* whose node_num 1 row has an id that is not ''.
C1_NamedPairEmits ==
    [][GroupStepped /\ NamedPair(SteppedRows) => EmitsPair(SteppedRows)]_vars

\* A loader whose first pass was on a named pair in the frame's reverse order
\* (the object's row first) and appended 2 Nodes and 1 Edge.
C1_Witness ==
    /\ pc = "get_nodes_and_edges"
    /\ row_index # None
    /\ NamedPair(CurrentRows)
    /\ CurrentRows[1].node_num = 3
    /\ Len(final_node_list) = 2
    /\ Len(final_edge_list) = 1
    /\ final_edge_list[1].subject_id = IdA
    /\ final_edge_list[1].object_id = IdC

\* Some counter of the run went up by one.
CounterIncremented ==
    \/ record_counter' = record_counter + 1
    \/ skipped_record_counter' = skipped_record_counter + 1
    \/ final_record_count' = final_record_count + 1
    \/ final_skipped_count' = final_skipped_count + 1

NodeIds == {final_node_list[j].id : j \in 1..Len(final_node_list)}

\* C3: the subject_id and the object_id of every Edge of final_edge_list are
\* ids of Nodes of final_node_list, in every state of the loop (the Nodes are
\* appended no later than the Edge).
C3_EdgesReferenceNodes ==
    \A i \in 1..Len(final_edge_list) :
        /\ final_edge_list[i].subject_id \in NodeIds
        /\ final_edge_list[i].object_id \in NodeIds

\* get_nodes_and_edges returned with an Edge between two different Nodes.
C3_Witness ==
    /\ pc = "done"
    /\ Len(final_edge_list) = 1
    /\ final_edge_list[1].subject_id # final_edge_list[1].object_id
    /\ Len(final_node_list) = 2

\* C4: a group that is not one node_num 1 row and one row of node_num 2 or
\* more makes the loop append nothing to final_node_list or final_edge_list.
C4_NothingAppended ==
    [][GroupStepped /\ ~OneSubjectOneObject(SteppedRows) =>
          /\ final_node_list' = final_node_list
          /\ final_edge_list' = final_edge_list]_vars

Range(seq) == {seq[i] : i \in 1..Len(seq)}

\* The multiset of the elements of a list.
BagOf(seq) == [x \in Range(seq) |-> Cardinality({i \in 1..Len(seq) : seq[i] = x})]

DiseaseStepped ==
    /\ pc = "parse_gene_to_disease"
    /\ record_counter' = record_counter + 1
    /\ Len(node_list') = Len(node_list) + 2

\* The step is a pass of the loop of parse_gene_to_drug_activity or of
\* parse_gene_to_cmpd_activity, on the record item'.
ActivityStepped ==
    /\ pc \in {"parse_gene_to_drug_activity", "parse_gene_to_cmpd_activity"}
    /\ record_counter' = record_counter + 1

LastRow(rows) == rows[Len(rows)]

\* A 'C' followed only by digits.
IsCThenDigits(did) ==
    /\ Len(did) >= 2
    /\ did[1] = "C"
    /\ \A i \in 2..Len(did) : did[i] \in {"0", "1", "2", "3", "4", "5", "6", "7", "8", "9"}

\* The id the rules of C5 give a disease id.
ClaimedDid(did) ==
    IF IsCThenDigits(did) THEN << "U", "M", "L", "S", ":" >> \o did
    ELSE IF StartsWith(did, << "O", "r", "p", "h", "a", "n", "e", "t", ":" >>)
         THEN << "O", "R", "P", "H", "A", "N", "E", "T", ":" >> \o SubSeq(did, 10, Len(did))
    ELSE did

\* C5: the disease row of a record carries the id the ordered rules give its
\* disease id: 'UMLS:' + id for a 'C' followed only by digits, else
\* 'ORPHANET:' + the whole suffix for an id that starts with 'Orphanet:',
\* else the id unchanged.
C5_NormalizedAsClaimed ==
    [][DiseaseStepped => LastRow(node_list').id = ClaimedDid(item'.did)]_vars

Separators == {",", "-", " ", "\t", "\n"}

\* Every run of commas, dashes and whitespace replaced by one underscore.
RECURSIVE CollapseRuns(_)
CollapseRuns(s) ==
    IF s = << >> THEN << >>
    ELSE IF s[1] \in Separators
         THEN IF Len(s) > 1 /\ s[2] \in Separators
              THEN CollapseRuns(Tail(s))
              ELSE << "_" >> \o CollapseRuns(Tail(s))
         ELSE << s[1] >> \o CollapseRuns(Tail(s))

\* The relation C6 gives a raw predicate.
ClaimedRelation(pred) ==
    << "G", "A", "M", "M", "A", ":" >>
    \o (IF pred = None \/ Len(pred) <= 1
        THEN << "i", "n", "t", "e", "r", "a", "c", "t", "s", "_", "w", "i", "t", "h" >>
        ELSE Lower(CollapseRuns(pred)))

\* C6: the relation of the rows of a drug or compound activity record is
\* 'GAMMA:' and its predicate, lower case, with every run of commas, dashes
\* and whitespace one underscore ('Part Of, Regulates' gives
\* 'GAMMA:part_of_regulates'), and 'GAMMA:interacts_with' without a predicate.
C6_RelationAsClaimed ==
    [][ActivityStepped /\ Len(node_list') = Len(node_list) + 2 =>
          /\ LastRow(node_list').relation = ClaimedRelation(item'.pred)
          /\ item'.pred = PartOfRegulates =>
                LastRow(node_list').relation =
                    << "G", "A", "M", "M", "A", ":", "p", "a", "r", "t", "_", "o", "f", "_",
                       "r", "e", "g", "u", "l", "a", "t", "e", "s" >>]_vars

\* The rows of the records: the parse_* methods append them two by two.
RecordPairs == {i \in 1..Len(node_list) : i % 2 = 1}

\* C7: two records with the same subject id, relation and object id have the
\* same group key.
C7_KeyIsFunctionOfFields ==
    pc \in {"parse_gene_to_disease", "parse_gene_to_drug_activity",
            "parse_gene_to_cmpd_activity"} =>
        \A i, j \in RecordPairs :
            /\ node_list[i].id = node_list[j].id
            /\ node_list[i + 1].id = node_list[j + 1].id
            /\ node_list[i + 1].relation = node_list[j + 1].relation
            => node_list[i].grp = node_list[j].grp

\* The name out is the name in with every character of code point 128 or
\* more replaced by '?' and the others kept.
SanitizedFrom(in, out) ==
    /\ Len(out) = Len(in)
    /\ \A i \in 1..Len(in) : out[i] = IF Ord(in[i]) >= 128 THEN "?" ELSE in[i]
    /\ \A i \in 1..Len(out) : Ord(out[i]) < 128

\* C9: the Nodes the loop appends for a pair carry the rows' ids unchanged
\* and the rows' names, of the same length, with every character of code
\* point 128 or more replaced by '?' and the others kept; no name of a Node
\* has a character of code point 128 or more.
C9_NamesSanitized ==
    [][GroupStepped =>
          /\ NamedPair(SteppedRows) =>
                /\ Len(NewNodes) = 2
                /\ NewNodes[1].id = SubjectOf(SteppedRows).id
                /\ SanitizedFrom(SubjectOf(SteppedRows).name, NewNodes[1].name)
                /\ NewNodes[2].id = ObjectOf(SteppedRows).id
                /\ SanitizedFrom(ObjectOf(SteppedRows).name, NewNodes[2].name)
          /\ \A j \in 1..Len(final_node_list') :
                \A i \in 1..Len(final_node_list'[j].name) :
                    Ord(final_node_list'[j].name[i]) < 128]_vars

\* A run that ended with the Node of a disease whose name had U+00E9 in it,
\* and the Node of a disease whose id has U+00E9 in it.
C9_Witness ==
    /\ pc = "done"
    /\ \E j \in 1..Len(final_node_list) : final_node_list[j].name = << "a", "?", "b" >>
    /\ \E j \in 1..Len(node_list) : node_list[j].name = << "a", "U+00E9", "b" >>
    /\ \E j \in 1..Len(final_node_list) : final_node_list[j].id = << "D", "U+00E9" >>

\* C10: a drug or compound activity record whose source tag is not 'ChEMBL'
\* or 'Guide to Pharmacology' raises KeyError out of parse_data, with nothing
\* in the final lists and no metadata returned, and the run stays aborted; a
\* record whose tag is one of the two gets its two rows whatever its cid.
C10_UnknownTagAborts ==
    [][/\ ActivityStepped =>
             IF item'.id_src \notin {TagChEMBL, TagGtoP}
             THEN /\ pc' = "raised"
                  /\ exc' = "KeyError"
                  /\ final_node_list' = << >>
                  /\ final_edge_list' = << >>
                  /\ load_metadata' = None
             ELSE /\ pc' = pc
                  /\ exc' = ""
                  /\ Len(node_list') = Len(node_list) + 2
       /\ pc = "raised" =>
             /\ pc' = "raised"
             /\ UNCHANGED << final_node_list, final_edge_list, load_metadata >>]_vars

\* A run that raised KeyError on its second record, the rows of the first in
\* the node list and the final lists empty.
C10_Witness ==
    /\ pc = "raised"
    /\ exc = "KeyError"
    /\ item.id_src = PubChem
    /\ Len(node_list) = 2
    /\ final_node_list = << >>
    /\ final_edge_list = << >>

(***************************************************************************)
(* Properties of the counters and of the whole run                         *)
(***************************************************************************)
\* The step is a pass of the loop of parse_gene_to_disease on a record whose
\* disease id is None.
NullDidStepped ==
    /\ pc = "parse_gene_to_disease"
    /\ record_counter' = record_counter + 1
    /\ item'.did = None

\* The records the run has counted, and those it has counted as skipped: the
\* sums of parse_data and the counters of the parse_* method that is running.
RecordsSoFar == final_record_count + record_counter

SkippedSoFar == final_skipped_count + skipped_record_counter

\* C11: a gene to disease record whose disease id is None raises the skipped
\* counter by exactly 1 and the record counter by 1, appends no row, leaves
\* the rows and the final lists as they were and the loop running, without an
\* exception; no other step changes the count of skipped records, and the
\* metadata parse_data returns carry the count of all records as
\* num_source_lines and the count of the skipped ones as
\* unusable_source_lines.
C11_NullDidSkipped ==
    [][/\ NullDidStepped =>
             /\ skipped_record_counter' = skipped_record_counter + 1
             /\ RecordsSoFar' = RecordsSoFar + 1
             /\ node_list' = node_list
             /\ pc' = "parse_gene_to_disease"
             /\ exc' = ""
             /\ UNCHANGED << final_node_list, final_edge_list, log >>
       /\ ~NullDidStepped => SkippedSoFar' = SkippedSoFar
       /\ pc' = "done" =>
             /\ exc' = ""
             /\ load_metadata'.num_source_lines = RecordsSoFar'
             /\ load_metadata'.unusable_source_lines = SkippedSoFar']_vars

\* A run that ended on two records, one of them skipped for its missing
\* disease id and the other with its Edge, and returned the two counts.
C11_Witness ==
    /\ pc = "done"
    /\ load_metadata.num_source_lines = 2
    /\ load_metadata.unusable_source_lines = 1
    /\ Len(node_list) = 2
    /\ Len(final_edge_list) = 1
    /\ final_edge_list[1].relation = S_WD_P2293

\* The database returned one record in all, the gene to disease record of
\* gene 'HGNC:777' (BRCA1), disease 'C009' (Breast Cancer) and data type
\* 'CTD', and parse_data returned.
OneBRCA1Record ==
    /\ pc = "done"
    /\ final_record_count = 1
    /\ final_skipped_count = 0
    /\ Len(node_list) = 2
    /\ node_list[1].id = G2
    /\ node_list[1].name = BRCA1
    /\ node_list[2].id = << "U", "M", "L", "S", ":" >> \o C009
    /\ node_list[2].name = BreastCancer
    /\ node_list[2].provenance = CTD

\* C12: the run on that one record ends with exactly the Nodes
\* {id 'HGNC:777', name 'BRCA1'} and {id 'UMLS:C009', name 'Breast Cancer'}
\* and exactly one Edge, from 'HGNC:777' to 'UMLS:C009', of relation
\* 'GAMMA:interacts_with' and primary_knowledge_source 'CTD'.
C12_EndToEnd ==
    OneBRCA1Record =>
        /\ Len(final_node_list) = 2
        /\ Range(final_node_list) =
              {[id |-> G2, name |-> BRCA1],
               [id |-> << "U", "M", "L", "S", ":" >> \o C009, name |-> BreastCancer]}
        /\ Len(final_edge_list) = 1
        /\ final_edge_list[1].subject_id = G2
        /\ final_edge_list[1].object_id = << "U", "M", "L", "S", ":" >> \o C009
        /\ final_edge_list[1].primary_knowledge_source = CTD
        /\ final_edge_list[1].relation = ClaimedRelation(None)

\* What the body of the group loop gives for the rows of one group alone, the
\* final lists empty.
GroupOutput(rows) == ProcessGroup(rows, << >>, << >>, << >>)

\* The sequential pass over the groups keys of the frame df, in one fixed
\* order, from the lists of acc on; it stops at the group that raises.
RECURSIVE SequentialPass(_, _, _)
SequentialPass(df, keys, acc) ==
    IF keys = {} THEN acc
    ELSE LET g == CHOOSE k \in keys : TRUE
             out == ProcessGroup(GroupRows(df, g), acc.nodes, acc.edges, acc.log)
         IN  IF out.exc # "" THEN out ELSE SequentialPass(df, keys \ {g}, out)

SequentialResult ==
    SequentialPass(node_list, GroupKeys(node_list),
                   [nodes |-> << >>, edges |-> << >>, exc |-> "", log |-> << >>])

\* C13: a pass of the group loop appends to the final lists, and raises,
\* what the body of the loop gives for the rows of that group alone, whatever
\* the lists hold from the groups before; a run in which the loop took the
\* groups in any order ends as the sequential pass does: with the same
\* exception if the pass raises, and if not with the same multiset of Nodes
\* and the same multiset of Edges.
C13_GroupsIndependent ==
    [][/\ GroupStepped =>
             /\ AppendOnly
             /\ NewNodes = GroupOutput(SteppedRows).nodes
             /\ NewEdges = GroupOutput(SteppedRows).edges
             /\ exc' = GroupOutput(SteppedRows).exc
       /\ pc' \in {"done", "raised"} /\ pc = "get_nodes_and_edges" =>
             /\ exc' = SequentialResult.exc
             /\ pc' = "done" =>
                   /\ BagOf(final_node_list') = BagOf(SequentialResult.nodes)
                   /\ BagOf(final_edge_list') = BagOf(SequentialResult.edges)]_vars

\* A run that ended with the Edges of two groups, in the final list in the
\* reverse of the order the frame has their rows in.
C13_Witness ==
    /\ pc = "done"
    /\ Len(node_list) = 4
    /\ node_list[1].grp # node_list[3].grp
    /\ node_list[2].id # node_list[4].id
    /\ Len(final_edge_list) = 2
    /\ final_edge_list[1].object_id = node_list[4].id
    /\ final_edge_list[2].object_id = node_list[2].id

\* The step is a pass of the loop of parse_gene_to_disease on a record whose
\* disease id, normalized, is its gene id.
SelfStepped ==
    /\ pc = "parse_gene_to_disease"
    /\ record_counter' = record_counter + 1
    /\ item'.did # None
    /\ ClaimedDid(item'.did) = item'.value

\* C14: a gene to disease record whose normalized disease id is its gene id
\* appends no row and raises nothing: the loop goes on, one error message
\* logged, the record counted and not counted as skipped; and in every state
\* of the run no Edge of gene to disease data (relation 'WD:P2293') has its
\* subject_id equal to its object_id.
C14_SelfLoopDropped ==
    [][/\ SelfStepped =>
             /\ node_list' = node_list
             /\ pc' = "parse_gene_to_disease"
             /\ exc' = ""
             /\ RecordsSoFar' = RecordsSoFar + 1
             /\ SkippedSoFar' = SkippedSoFar
             /\ Len(log') = Len(log) + 1
             /\ log'[Len(log')][1] = "error"
       /\ \A i \in 1..Len(final_edge_list') :
             final_edge_list'[i].relation = << "W", "D", ":", "P", "2", "2", "9", "3" >>
                 => final_edge_list'[i].subject_id # final_edge_list'[i].object_id]_vars

\* A run that ended on two gene to disease records, one whose normalized
\* disease id is its gene id, logged and dropped, and one with its Edge; both
\* counted, none skipped.
C14_Witness ==
    /\ pc = "done"
    /\ load_metadata.num_source_lines = 2
    /\ load_metadata.unusable_source_lines = 0
    /\ Len(log) >= 1
    /\ log[1][1] = "error"
    /\ Len(node_list) = 2
    /\ Len(final_edge_list) = 1
    /\ final_edge_list[1].relation = S_WD_P2293
    /\ final_edge_list[1].subject_id # final_edge_list[1].object_id

====
